---- MODULE Spec2Model ----
(***************************************************************************)
(* N-body gravitational simulation of src/main.rs: Planet, SolarSystem     *)
(* (add_planet, compute_gravitational_forces, update_positions) and the    *)
(* Model driven by update and key_pressed.                                 *)
(*                                                                         *)
(* f64 is modelled as a scaled-down binary floating-point format with the  *)
(* IEEE-754 behaviour the code relies on: round-to-nearest-even to Prec    *)
(* significant bits, gradual underflow, overflow to infinity, division by  *)
(* zero giving an infinity or NaN, and NaN propagation.  A finite value is *)
(* the integer count k of units 2^-FracBits; -0.0 is identified with 0.0.  *)
(***************************************************************************)
EXTENDS Integers, Sequences, FiniteSets, TLC

(***************************************************************************)
(* Bounds of the model.                                                    *)
(***************************************************************************)
\* significant bits of the floating-point format (f64: 53)
Prec == 4
\* a finite value is k * 2^-FracBits; 1.0 is 2^FracBits units
FracBits == 3
\* the largest finite value is (2^Prec - 1) * 2^MaxShift units
MaxShift == 5
\* bodies a SolarSystem holds at most
MaxPlanets == 2
\* update calls in a run
MaxSteps == 2
\* key presses in a run
MaxPresses == 1

(***************************************************************************)
(* f64                                                                     *)
(***************************************************************************)
RECURSIVE Pow2(_)
Pow2(n) == IF n <= 0 THEN 1 ELSE 2 * Pow2(n - 1)

\* below 2^Prec units every integer count is representable
TwoPrec == Pow2(Prec)
MaxK == (TwoPrec - 1) * Pow2(MaxShift)
\* the three values that are not finite, as integers beyond the finite range
PInf == MaxK + 1
NInf == -(MaxK + 1)
NaN == MaxK + 2

IsNaN(x) == x = NaN
IsInf(x) == x = PInf \/ x = NInf
IsNum(x) == x >= -MaxK /\ x <= MaxK
Abs(n) == IF n < 0 THEN -n ELSE n
Sgn(n) == IF n < 0 THEN -1 ELSE IF n > 0 THEN 1 ELSE 0
One == Pow2(FracBits)

\* the spacing of representable values at magnitude t (t in units)
RECURSIVE Ulp(_)
Ulp(t) == IF t < TwoPrec THEN 1 ELSE 2 * Ulp(t \div 2)

\* round-to-nearest, ties-to-even, of the rational a / d with a >= 0, d > 0,
\* to a multiple of ulp
RoundQuot(a, d, ulp) ==
    LET q == a \div (d * ulp)
        r == a - q * d * ulp
    IN  IF 2 * r < d * ulp THEN q * ulp
        ELSE IF 2 * r > d * ulp THEN (q + 1) * ulp
        ELSE IF q % 2 = 0 THEN q * ulp ELSE (q + 1) * ulp

\* the f64 nearest to the rational n / d (in units), d > 0; overflow gives
\* an infinity
Round(n, d) ==
    LET a == Abs(n)
        m == RoundQuot(a, d, Ulp(a \div d))
    IN  IF m > MaxK THEN (IF n < 0 THEN NInf ELSE PInf)
        ELSE IF n < 0 THEN -m ELSE m

\* a literal of the source: the f64 nearest to the decimal n / d
Lit(n, d) == Round(n * One, d)

FNeg(x) == IF IsNaN(x) THEN NaN ELSE -x

FAdd(x, y) ==
    IF IsNaN(x) \/ IsNaN(y) THEN NaN
    ELSE IF IsInf(x) /\ IsInf(y) THEN (IF x = y THEN x ELSE NaN)
    ELSE IF IsInf(x) THEN x
    ELSE IF IsInf(y) THEN y
    ELSE Round(x + y, 1)

FSub(x, y) == FAdd(x, FNeg(y))

FMul(x, y) ==
    IF IsNaN(x) \/ IsNaN(y) THEN NaN
    ELSE IF IsInf(x) \/ IsInf(y)
         THEN (IF x = 0 \/ y = 0 THEN NaN
               ELSE IF Sgn(x) * Sgn(y) > 0 THEN PInf ELSE NInf)
    ELSE Round(x * y, One)

FDiv(x, y) ==
    IF IsNaN(x) \/ IsNaN(y) THEN NaN
    ELSE IF IsInf(x) /\ IsInf(y) THEN NaN
    ELSE IF IsInf(x) THEN (IF Sgn(x) * Sgn(y) >= 0 THEN PInf ELSE NInf)
    ELSE IF IsInf(y) THEN 0
    ELSE IF y = 0 THEN (IF x = 0 THEN NaN ELSE IF x > 0 THEN PInf ELSE NInf)
    ELSE IF y > 0 THEN Round(x * One, y)
    ELSE Round(-(x * One), -y)

\* the largest r with r * r <= n
RECURSIVE ISqrtFrom(_, _)
ISqrtFrom(n, r) == IF (r + 1) * (r + 1) > n THEN r ELSE ISqrtFrom(n, r + 1)
ISqrt(n) == ISqrtFrom(n, 0)

\* correctly rounded square root
FSqrt(x) ==
    IF IsNaN(x) \/ x < 0 THEN NaN
    ELSE IF x = PInf THEN PInf
    ELSE LET n == x * One
             t == ISqrt(n)
             ulp == Ulp(t)
             q == t \div ulp
             lo == q * ulp
             hi == (q + 1) * ulp
             \* sqrt(n) against the midpoint (2q + 1) * ulp / 2
             c == 4 * n - (2 * q + 1) * (2 * q + 1) * ulp * ulp
         IN  IF c < 0 THEN lo
             ELSE IF c > 0 THEN hi
             ELSE IF q % 2 = 0 THEN lo ELSE hi

(***************************************************************************)
(* na::Vector3<f64>                                                        *)
(***************************************************************************)
Zeros == <<0, 0, 0>>
VAdd(a, b) == <<FAdd(a[1], b[1]), FAdd(a[2], b[2]), FAdd(a[3], b[3])>>
VSub(a, b) == <<FSub(a[1], b[1]), FSub(a[2], b[2]), FSub(a[3], b[3])>>
VScale(a, s) == <<FMul(a[1], s), FMul(a[2], s), FMul(a[3], s)>>
VDivS(a, s) == <<FDiv(a[1], s), FDiv(a[2], s), FDiv(a[3], s)>>
Magnitude(a) ==
    FSqrt(FAdd(FAdd(FMul(a[1], a[1]), FMul(a[2], a[2])), FMul(a[3], a[3])))
Normalize(a) == VDivS(a, Magnitude(a))

(***************************************************************************)
(* Planet                                                                  *)
(***************************************************************************)
PlanetNew(name, mass, position, velocity, color) ==
    [name |-> name, mass |-> mass, position |-> position,
     velocity |-> velocity, color |-> color]

(***************************************************************************)
(* SolarSystem                                                             *)
(***************************************************************************)
\* the force planet j exerts on planet i (the body of the inner loop)
PairForce(pl, G, i, j) ==
    LET direction == VSub(pl[j].position, pl[i].position)
        distance == Magnitude(direction)
        force_magnitude ==
            FDiv(FMul(FMul(G, pl[i].mass), pl[j].mass), FMul(distance, distance))
    IN  VScale(Normalize(direction), force_magnitude)

\* the inner loop: forces[i] accumulated over j = from .. len
RECURSIVE ForceOn(_, _, _, _, _)
ForceOn(pl, G, i, j, acc) ==
    IF j > Len(pl) THEN acc
    ELSE IF i # j THEN ForceOn(pl, G, i, j + 1, VAdd(acc, PairForce(pl, G, i, j)))
    ELSE ForceOn(pl, G, i, j + 1, acc)

compute_gravitational_forces(pl, G) ==
    [i \in 1 .. Len(pl) |-> ForceOn(pl, G, i, 1, Zeros)]

\* explicit Euler: the position advanced by the pre-step velocity
IntegrateBodyExplicit(planet, force, dt) ==
    LET acceleration == VDivS(force, planet.mass)
        velocity == VAdd(planet.velocity, VScale(acceleration, dt))
        position == VAdd(planet.position, VScale(planet.velocity, dt))
    IN  [planet EXCEPT !.velocity = velocity, !.position = position]

\* the body of the loop of update_positions
IntegrateBody(planet, force, dt) ==
    LET acceleration == VDivS(force, planet.mass)
        velocity == VAdd(planet.velocity, VScale(acceleration, dt))
        position == VAdd(planet.position, VScale(velocity, dt))
    IN  [planet EXCEPT !.velocity = velocity, !.position = position]

\* the loop of update_positions from index i on
RECURSIVE IntegrateFrom(_, _, _, _)
IntegrateFrom(pl, forces, dt, i) ==
    IF i > Len(pl) THEN pl
    ELSE IntegrateFrom([pl EXCEPT ![i] = IntegrateBody(pl[i], forces[i], dt)],
                       forces, dt, i + 1)

\* no force buffer: the force on planet i is computed when planet i is
\* integrated, from the planets as they are by then
RECURSIVE InterleavedFrom(_, _, _, _)
InterleavedFrom(pl, G, dt, i) ==
    IF i > Len(pl) THEN pl
    ELSE InterleavedFrom(
             [pl EXCEPT ![i] = IntegrateBody(pl[i], ForceOn(pl, G, i, 1, Zeros), dt)],
             G, dt, i + 1)

update_positions_interleaved(pl, G, dt) == InterleavedFrom(pl, G, dt, 1)

update_positions(pl, G, dt) ==
    LET forces == compute_gravitational_forces(pl, G)
    IN  IntegrateFrom(pl, forces, dt, 1)

\* insertion at the front: every existing index shifts
add_planet_front(pl, planet) == <<planet>> \o pl

add_planet(pl, planet) == Append(pl, planet)

(***************************************************************************)
(* Model, update, key_pressed                                              *)
(***************************************************************************)
\* 60.0 s per frame, in the model's unit of time (one minute)
NominalDt == Lit(1, 1)
\* 6.67430e-11 m^3 kg^-1 s^-2, the factor 1e-11 absorbed by the model's units
GravConst == Lit(66743, 10000)
\* 1.0e9, the factor 1e9 absorbed by the model's units
InitialScale == Lit(1, 1)
UpFactor == Lit(11, 10)
DownFactor == Lit(9, 10)

\* the speed multiplier applied twice
FrameDtTwice(nominal, speed) == FMul(FMul(nominal, speed), speed)

\* let dt = 60.0 * model.speed_multiplier
FrameDt(nominal, speed) == FMul(nominal, speed)

\* update with a nominal frame time: the step of the solar system
StepWith(pl, G, nominal, speed) == update_positions(pl, G, FrameDt(nominal, speed))

\* the arms of the match in key_pressed; "Other" is any key of the _ arm
Keys == {"Up", "Down", "Right", "Left", "Other"}

\* Down subtracting instead of scaling
SpeedAfterKeySubtract(speed, key) ==
    IF key = "Up" THEN FMul(speed, UpFactor)
    ELSE IF key = "Down" THEN FSub(speed, DownFactor)
    ELSE speed

SpeedAfterKey(speed, key) ==
    IF key = "Up" THEN FMul(speed, UpFactor)
    ELSE IF key = "Down" THEN FMul(speed, DownFactor)
    ELSE speed

ScaleAfterKey(scale, key) ==
    IF key = "Right" THEN FMul(scale, UpFactor)
    ELSE IF key = "Left" THEN FDiv(scale, UpFactor)
    ELSE scale

\* the bodies a caller constructs: Planet::new takes any f64 as mass and any
\* vectors, so besides two bodies of positive mass there is one of mass zero
\* and one of negative mass
Bodies ==
    { PlanetNew("Sun", Lit(2, 1), <<0, 0, 0>>, <<0, 0, 0>>, "ORANGE"),
      PlanetNew("Earth", Lit(1, 1), <<Lit(2, 1), 0, 0>>, <<0, Lit(1, 1), 0>>, "BLUE"),
      PlanetNew("Void", 0, <<Lit(-1, 1), 0, 0>>, <<0, 0, 0>>, "BLACK"),
      PlanetNew("Anti", Lit(-1, 1), <<0, 0, Lit(-2, 1)>>, <<0, 0, Lit(1, 2)>>, "WHITE") }

VARIABLES
    planets,                \* SolarSystem.planets
    gravitational_constant, \* SolarSystem.gravitational_constant
    speed_multiplier,       \* Model.speed_multiplier
    scale_factor,           \* Model.scale_factor
    steps,                  \* update calls so far
    presses                 \* key presses so far

vars == <<planets, gravitational_constant, speed_multiplier, scale_factor,
          steps, presses>>

\* SolarSystem::new and the Model literal of model()
Init ==
    /\ planets = <<>>
    /\ gravitational_constant = GravConst
    /\ speed_multiplier = Lit(1, 1)
    /\ scale_factor = InitialScale
    /\ steps = 0
    /\ presses = 0

\* Planet::new followed by SolarSystem::add_planet
AddPlanet ==
    /\ Len(planets) < MaxPlanets
    /\ \E b \in Bodies :
          planets' = add_planet(planets,
                         PlanetNew(b.name, b.mass, b.position, b.velocity, b.color))
    /\ UNCHANGED <<gravitational_constant, speed_multiplier, scale_factor,
                   steps, presses>>

\* update: one frame
Update ==
    /\ steps < MaxSteps
    /\ planets' = StepWith(planets, gravitational_constant, NominalDt,
                           speed_multiplier)
    /\ steps' = steps + 1
    /\ UNCHANGED <<gravitational_constant, speed_multiplier, scale_factor, presses>>

KeyPressed ==
    /\ presses < MaxPresses
    /\ \E key \in Keys :
          /\ speed_multiplier' = SpeedAfterKey(speed_multiplier, key)
          /\ scale_factor' = ScaleAfterKey(scale_factor, key)
    /\ presses' = presses + 1
    /\ UNCHANGED <<planets, gravitational_constant, steps>>

Next == AddPlanet \/ Update \/ KeyPressed

Spec == Init /\ [][Next]_vars

(***************************************************************************)
(* Vocabulary of the properties                                            *)
(***************************************************************************)
\* f64 comparisons: false when an operand is NaN
FEq(x, y) == ~IsNaN(x) /\ ~IsNaN(y) /\ x = y
FLt(x, y) == ~IsNaN(x) /\ ~IsNaN(y) /\ x < y
FLe(x, y) == ~IsNaN(x) /\ ~IsNaN(y) /\ x <= y
VEq(a, b) == FEq(a[1], b[1]) /\ FEq(a[2], b[2]) /\ FEq(a[3], b[3])
VNeg(a) == <<FNeg(a[1]), FNeg(a[2]), FNeg(a[3])>>
VFinite(a) == IsNum(a[1]) /\ IsNum(a[2]) /\ IsNum(a[3])
Dot(a, b) == FAdd(FAdd(FMul(a[1], b[1]), FMul(a[2], b[2])), FMul(a[3], b[3]))

AllFinite(pl) ==
    \A i \in 1 .. Len(pl) : VFinite(pl[i].position) /\ VFinite(pl[i].velocity)

\* two distinct bodies at identical positions
Coincident(pl) ==
    \E i, j \in 1 .. Len(pl) : i # j /\ VEq(pl[i].position, pl[j].position)

\* this step is an update
IsUpdateStep == steps' = steps + 1

\* the dt and the force buffer of an update taken in the current state
StepDt == FrameDt(NominalDt, speed_multiplier)
StepForces == compute_gravitational_forces(planets, gravitational_constant)

\* the scenes of two bodies a caller can build
Pairs == {<<a, b>> : a \in Bodies, b \in Bodies}

\* total momentum: the sum over the bodies of mass * velocity
RECURSIVE MomentumFrom(_, _, _)
MomentumFrom(pl, i, acc) ==
    IF i > Len(pl) THEN acc
    ELSE MomentumFrom(pl, i + 1, VAdd(acc, VScale(pl[i].velocity, pl[i].mass)))
Momentum(pl) == MomentumFrom(pl, 1, Zeros)

\* the bodies integrated in the order given (a sequence of indices)
RECURSIVE IntegrateInOrder(_, _, _, _, _)
IntegrateInOrder(pl, forces, dt, order, k) ==
    IF k > Len(order) THEN pl
    ELSE IntegrateInOrder(
             [pl EXCEPT ![order[k]] = IntegrateBody(pl[order[k]], forces[order[k]], dt)],
             forces, dt, order, k + 1)

\* the orders in which n bodies can be integrated
Orders(n) == Permutations(1 .. n)

\* every speed multiplier some finite sequence of key presses reaches
RECURSIVE SpeedClosure(_, _)
SpeedClosure(done, frontier) ==
    IF frontier = {} THEN done
    ELSE LET all == done \cup frontier
             next == {SpeedAfterKey(s, key) : s \in frontier, key \in Keys}
         IN  SpeedClosure(all, next \ all)

SpeedsFromOne == SpeedClosure({}, {Lit(1, 1)})

\* every such multiplier, and the dt update derives from it, is above zero
SpeedsAllPositive ==
    \A s \in SpeedsFromOne : FLt(0, s) /\ FLt(0, FrameDt(NominalDt, s))

(***************************************************************************)
(* Properties                                                              *)
(***************************************************************************)

\* C1: an update taken while two distinct bodies have identical positions
\* leaves every body's position and velocity as they were (the step fails as
\* a whole), so no body state comes from a division by a zero distance.
C1_DegenerateStepChangesNothing ==
    [][(IsUpdateStep /\ Coincident(planets)) => planets' = planets]_vars

\* C2: every body in the collection has mass > 0, whatever masses the
\* callers of Planet::new / add_planet passed.
C2_EveryMassPositive ==
    \A i \in 1 .. Len(planets) : FLt(0, planets[i].mass)

\* C3: in an update every body is integrated with the force computed from
\* the pre-step state of all bodies, and the result is the same in whatever
\* order the bodies are integrated.
C3_ForcesFromPreStepState ==
    [][IsUpdateStep =>
          \A forces \in {StepForces}, dt \in {StepDt} :
             /\ Len(planets') = Len(planets)
             /\ \A i \in 1 .. Len(planets) :
                   planets'[i] = IntegrateBody(planets[i], forces[i], dt)
             /\ \A order \in Orders(Len(planets)) :
                   planets' = IntegrateInOrder(planets, forces, dt, order, 1)
      ]_vars

\* C3 witness: the state an update of a two-body scene produced, where
\* computing each force only when its body is integrated would have given
\* another state.
C3_Witness ==
    /\ steps = 1
    /\ AllFinite(planets)
    /\ \E pre \in Pairs :
          /\ planets = update_positions(pre, gravitational_constant, StepDt)
          /\ planets # update_positions_interleaved(pre, gravitational_constant, StepDt)

\* C4: an update gives body i the velocity v + (force / mass) * dt and the
\* position p + v_new * dt, v_new being that new velocity (semi-implicit
\* Euler).
C4_SemiImplicitEuler ==
    [][IsUpdateStep =>
          \A forces \in {StepForces}, dt \in {StepDt} :
             \A i \in 1 .. Len(planets) :
                /\ planets'[i].velocity =
                      VAdd(planets[i].velocity,
                           VScale(VDivS(forces[i], planets[i].mass), dt))
                /\ planets'[i].position =
                      VAdd(planets[i].position, VScale(planets'[i].velocity, dt))
      ]_vars

\* C4 witness: the state an update produced in which a body's position
\* differs from the one the pre-step velocity would have given.
C4_Witness ==
    /\ steps = 1
    /\ AllFinite(planets)
    /\ \E pre \in Pairs :
          /\ planets = update_positions(pre, gravitational_constant, StepDt)
          /\ \E i \in 1 .. 2 :
                /\ planets[i].velocity # pre[i].velocity
                /\ planets[i].position #
                      VAdd(pre[i].position, VScale(pre[i].velocity, StepDt))

\* C5: an update of bodies at pairwise distinct positions leaves the total
\* momentum as it was, so it is the initial one after any number of steps.
C5_MomentumConserved ==
    [][(IsUpdateStep /\ ~Coincident(planets) /\ AllFinite(planets)) =>
          VEq(Momentum(planets'), Momentum(planets))]_vars

\* C6: for two bodies at distinct positions the two forces are opposite
\* vectors and each points from its body toward the other.
C6_EqualAndOpposite ==
    (Len(planets) = 2 /\ AllFinite(planets) /\ ~Coincident(planets)) =>
        /\ VEq(StepForces[1], VNeg(StepForces[2]))
        /\ FLt(0, Dot(StepForces[1], VSub(planets[2].position, planets[1].position)))
        /\ FLt(0, Dot(StepForces[2], VSub(planets[1].position, planets[2].position)))

\* C7: an update with frame time dt and speed multiplier k gives the state
\* an update with frame time dt * k and speed multiplier 1 gives.
C7_TimeScaleLinearity ==
    [][IsUpdateStep =>
          planets' = StepWith(planets, gravitational_constant,
                              FMul(NominalDt, speed_multiplier), Lit(1, 1))]_vars

\* C7 witness: the state an update with a speed multiplier other than 1
\* produced, which differs from the one a multiplier of 1 would have given.
C7_Witness ==
    /\ steps = 1
    /\ speed_multiplier # Lit(1, 1)
    /\ AllFinite(planets)
    /\ \E pre \in Pairs :
          /\ planets = StepWith(pre, gravitational_constant, NominalDt, speed_multiplier)
          /\ planets # StepWith(pre, gravitational_constant, NominalDt, Lit(1, 1))

\* C8: an update of a single body computes zero force on it, leaves its
\* velocity as it was and advances its position by velocity * dt *
\* time_scale.
C8_SingleBodyDrifts ==
    [][(IsUpdateStep /\ Len(planets) = 1 /\ AllFinite(planets)) =>
          /\ StepForces = <<Zeros>>
          /\ VEq(planets'[1].velocity, planets[1].velocity)
          /\ VEq(planets'[1].position,
                 VAdd(planets[1].position, VScale(planets[1].velocity, StepDt)))
      ]_vars

\* C9 as stated: some finite sequence of key presses takes the speed
\* multiplier from 1.0 to zero or below.
C9_SpeedReachesZeroOrBelow ==
    \E s \in SpeedsFromOne \cup {speed_multiplier} : FLe(s, 0)

\* C9 as amended: every speed multiplier a finite sequence of key presses
\* reaches from 1.0 is greater than zero, and so is the dt a later update
\* derives from it.
C9_SpeedStaysPositive ==
    /\ speed_multiplier \in SpeedsFromOne
    /\ SpeedsAllPositive

\* C9 witness: Down was pressed, the multiplier is below 1.0, and repeated
\* Down presses stall at a multiplier above zero.
C9_Witness ==
    /\ presses >= 1
    /\ FLt(speed_multiplier, Lit(1, 1))
    /\ \E s \in SpeedsFromOne :
          /\ FLt(s, speed_multiplier)
          /\ SpeedAfterKey(s, "Down") = s

\* C10: in every step the collection does not shrink, a body keeps its
\* index, mass, name and colour, the gravitational constant is unchanged, an
\* add leaves the existing bodies as they are, an update writes positions and
\* velocities only and a key press the speed and scale controls only.
C10_Frame ==
    [][/\ Len(planets') >= Len(planets)
       /\ gravitational_constant' = gravitational_constant
       /\ \A i \in 1 .. Len(planets) :
             /\ planets'[i].mass = planets[i].mass
             /\ planets'[i].name = planets[i].name
             /\ planets'[i].color = planets[i].color
       /\ Len(planets') > Len(planets) =>
             /\ SubSeq(planets', 1, Len(planets)) = planets
             /\ Len(planets') = Len(planets) + 1
       /\ planets' # planets =>
             speed_multiplier' = speed_multiplier /\ scale_factor' = scale_factor
       /\ (speed_multiplier' # speed_multiplier \/ scale_factor' # scale_factor) =>
             planets' = planets
      ]_vars

\* C10 witness: two different bodies were added, an update moved them and
\* a key press changed a control.
C10_Witness ==
    /\ Len(planets) = 2
    /\ planets[1].name # planets[2].name
    /\ steps >= 1
    /\ presses >= 1
    /\ (speed_multiplier # Lit(1, 1) \/ scale_factor # InitialScale)
    /\ \E i \in 1 .. 2 : \A b \in Bodies : planets[i].position # b.position
====
